---- MODULE Spec2Model ----
(***************************************************************************)
(* Model of robomimic/models/perceiver_nets/perceiver_obs.py:              *)
(* PerceiverVisionTransformer.visual_embed (patch embedding, position      *)
(* resampling, token-budget sampling, assembly), Attention/Block/forward,  *)
(* resize_pos_embed and the registry of named constructors.                *)
(*                                                                         *)
(* Tensors are modelled by what decides their shape and provenance: a      *)
(* patch feature is the triple <<image, row, column>> of the patch the     *)
(* convolution read, a position embedding is the grid cell it was          *)
(* resampled for, an exception is the state pc = "error" with its reason.  *)
(***************************************************************************)
EXTENDS Integers, Sequences, FiniteSets, TLC

\* ---- bounds of the model ----
Batch == 2
MaxPatches == 4
MaxLen == 4
MaxTokens == 8
MaxSeq == 3
Levels == 3
Depth == 2
MaxPosTokens == 10
MaxDim == 2
MaxFrames == 2
MaxVideoPatches == 2
MaxVideoTokens == 4
MaxImgSide == 4
MaxPatchSide == 2

\* ---- program constants ----
TemporalSlots == 64

VARIABLES
    pc,             \* position in visual_embed: start, embedded, selecting, done, error
    err,            \* reason of the exception when pc = "error"
    is_video,       \* len(_x.size()) == 5
    bs,             \* ori_shape[0]: videos of the batch, or images for 4-D input
    T,              \* ori_shape[1]: frames per video, 1 for 4-D input
    H, W,           \* patch grid of the convolution output
    content,        \* per image: <<rows, columns>> of patches covering image content,
                    \* then 0 when the mean of its pixels is exactly 0, else 1
    max_image_len,  \* argument of visual_embed: its value when it is a number
    len_type,       \* type of the argument max_image_len: int, float, none
    mask_it,        \* argument of visual_embed
    use_video,      \* constructor argument
    max_frames,     \* constructor argument
    x,              \* per image: flattened patch features
    x_mask,         \* per image: flattened patch mask
    x_h, x_w,       \* per image: valid height and width
    pos_embed,      \* per image: flattened resampled position grid
    patch_index,    \* per image: flattened grid coordinates
    label,          \* per image: flattened labels of mask_tokens
    budget,         \* max_image_len after line 444
    sel_i,          \* rows the loop of line 461 has handled
    select,         \* concatenation of the chosen <<image, flat index>> pairs
    padded,         \* images whose part of select was filled by pad-sampling
    out_x, out_mask, out_index, out_label,
    \* PerceiverVisionTransformer.forward on two runs over the same mask
    fwd_pc,         \* blocks, norm, done
    fwd_x,          \* fwd_x[run][j]: token j of the run
    fwd_mask,       \* x_mask of the example
    fwd_blk,        \* blocks applied so far
    fwd_attn,       \* fwd_attn[run][i][j]: softmax numerator of the last block
    fwd_w,          \* a learned weight shared by the projections
    fwd_log,        \* the calls forward has made: <<block, mask handed to it>>, then "norm"
    fwd_prev,       \* the input of the call made last (a block, or the norm)
    \* a registered constructor and _create_vision_transformer
    fac_pc,         \* called, creating, returned, error
    fac_name,       \* the registered function called
    fac_pretrained, \* its argument pretrained
    fac_kwargs,     \* model_kwargs handed to _create_vision_transformer
    fac_model,      \* what the constructor returns
    fac_err,
    \* checkpoint_filter_fn on the entry pos_embed
    rs_pc,          \* start, done, error
    rs_ckpt,        \* the checkpoint's pos_embed: tokens and embedding dimension
    rs_model,       \* the model's pos_embed: tokens and embedding dimension
    rs_out,         \* out_dict["pos_embed"]
    rs_err,
    \* PerceiverVisionTransformer.__init__ and the patch convolution
    ct_pc,          \* new, built, error
    ct_args,        \* the arguments of the constructor
    ct_model,       \* the attributes the constructor has set
    ct_err,
    in_h, in_w      \* pixel height and width of the images handed to visual_embed

embedIn == <<is_video, bs, T, H, W, content, max_image_len, len_type, mask_it, use_video, max_frames>>
embedMid == <<x, x_mask, x_h, x_w, pos_embed, patch_index, label>>
embedSel == <<budget, sel_i, select, padded>>
embedOut == <<out_x, out_mask, out_index, out_label>>
embedVars == <<pc, err, embedIn, embedMid, embedSel, embedOut>>
fwdVars == <<fwd_pc, fwd_x, fwd_mask, fwd_blk, fwd_attn, fwd_w, fwd_log, fwd_prev>>
facVars == <<fac_pc, fac_name, fac_pretrained, fac_kwargs, fac_model, fac_err>>
rsVars == <<rs_pc, rs_ckpt, rs_model, rs_out, rs_err>>
ctVars == <<ct_pc, ct_args, ct_model, ct_err, in_h, in_w>>
vars == <<embedVars, fwdVars, facVars, rsVars, ctVars>>

\* ---- helpers ----
Min(a, b) == IF a <= b THEN a ELSE b

\* the element of a one-element set
The(S) == CHOOSE e \in S : TRUE

RECURSIVE SeqSum(_)
SeqSum(s) == IF s = <<>> THEN 0 ELSE Head(s) + SeqSum(Tail(s))

RECURSIVE SeqMax(_)
SeqMax(s) == IF Len(s) = 1 THEN s[1]
             ELSE IF Head(s) >= SeqMax(Tail(s)) THEN Head(s) ELSE SeqMax(Tail(s))

\* sequences of length k over S, with and without repetition
RECURSIVE Draws(_, _)
Draws(S, k) ==
    IF k = 0 THEN {<<>>}
    ELSE {<<e>> \o d : e \in S, d \in Draws(S, k - 1)}

RECURSIVE DistinctDraws(_, _)
DistinctDraws(S, k) ==
    IF k = 0 THEN {<<>>}
    ELSE UNION {{<<e>> \o d : d \in DistinctDraws(S \ {e}, k - 1)} : e \in S}

\* row and column of flat position p of a grid of width w flattened row-major
RowOf(p, w) == (p - 1) \div w
ColOf(p, w) == (p - 1) % w

Grid(h, w) == (0..(h - 1)) \X (0..(w - 1))

\* tensor.flatten over the two grid axes: g[<<r, c>>] lands at position r*w + c
Flatten(g, h, w) == [p \in 1..(h * w) |-> g[<<RowOf(p, w), ColOf(p, w)>>]]

\* the patch at <<r, c>> of image i covers image content (not zero padding)
IsContent(i, r, c) == r < content[i][1] /\ c < content[i][2]

\* the image (frame) i is all zeros
IsZeroImage(i) == content[i][1] = 0 \/ content[i][2] = 0

\* the pixels of image (frame) i have mean exactly 0: every all-zero image,
\* and an image whose positive and negative pixel values cancel
MeanIsZero(i) == content[i][3] = 0

\* ---- visual_embed, lines 367-426 ----
\* B of line 388: images after the reshape of line 372
BImg == bs * T

\* the output of the strided convolution at grid cell <<r, c>> of image i
PatchFeature(i, r, c) == [kind |-> "patch", img |-> i, r |-> r, c |-> c]

cls_token == [kind |-> "cls", img |-> 0, r |-> 0, c |-> 0]

mask_token == [kind |-> "mask", img |-> 0, r |-> 0, c |-> 0]

\* x_mask of lines 381-383 at grid cell <<r, c>> of image i: ones_like(...)
\* is 1 everywhere, and nearest interpolation of ones is ones
PixelMask(i, r, c) == 1

MaskGrid(i) == [rc \in Grid(H, W) |-> PixelMask(i, rc[1], rc[2])]

\* x_mask[:, 0].sum(dim=1)[:, 0]: the ones of column 0
ValidHeight(m, h) == SeqSum([r \in 1..h |-> m[<<r - 1, 0>>]])

\* x_mask[:, 0].sum(dim=2)[:, 0]: the ones of row 0
ValidWidth(m, w) == SeqSum([c \in 1..w |-> m[<<0, c - 1>>]])

\* the position grid resampled to h x w and zero-padded to the H x W grid
ResampledPos(h, w, r, c) ==
    IF r < h /\ c < w
    THEN [kind |-> "grid", r |-> r, c |-> c, h |-> h, w |-> w]
    ELSE [kind |-> "zero", r |-> 0, c |-> 0, h |-> 0, w |-> 0]

cls_pos == [kind |-> "cls", r |-> 0, c |-> 0, h |-> 0, w |-> 0]

PatchIndexSwapped(h, w) == Flatten([rc \in Grid(h, w) |-> <<rc[2], rc[1]>>], h, w)

\* meshgrid(arange(H), arange(W)) stacked and flattened
PatchIndex(h, w) == Flatten([rc \in Grid(h, w) |-> rc], h, w)

Embed ==
    /\ UNCHANGED <<fwdVars, facVars, rsVars, ctVars>>
    /\ pc = "start"
    /\ pc' = "embedded"
    /\ x' = [i \in 1..BImg |->
                Flatten([rc \in Grid(H, W) |-> PatchFeature(i, rc[1], rc[2])], H, W)]
    /\ x_mask' = [i \in 1..BImg |-> Flatten(MaskGrid(i), H, W)]
    /\ x_h' = [i \in 1..BImg |-> ValidHeight(MaskGrid(i), H)]
    /\ x_w' = [i \in 1..BImg |-> ValidWidth(MaskGrid(i), W)]
    /\ pos_embed' = [i \in 1..BImg |->
                Flatten([rc \in Grid(H, W) |->
                            ResampledPos(ValidHeight(MaskGrid(i), H),
                                         ValidWidth(MaskGrid(i), W), rc[1], rc[2])],
                        H, W)]
    /\ patch_index' = [i \in 1..BImg |-> PatchIndex(H, W)]
    /\ UNCHANGED <<err, embedIn, label, embedSel, embedOut>>

\* ---- mask_tokens, lines 333-365, called at line 429 ----
\* the attributes __init__ (lines 262-318) sets on the module
ModelAttributes ==
    {"num_classes", "num_features", "embed_dim", "add_norm_before_transformer",
     "patch_embed", "patch_size", "patch_dim", "cls_token", "pos_embed",
     "total_output_patch", "pos_drop", "use_video", "blocks", "norm"}
    \cup (IF use_video THEN {"temporal_embed", "max_frames"} ELSE {})

\* (img * 0.5 + 0.5) averaged over the patch, times 255, as an integer
PixelAverage(i, p) ==
    IF IsContent(i, RowOf(p, W), ColOf(p, W)) THEN 255 ELSE 127

\* what lines 359-363 do with the feature of a patch chosen for masking:
\* overwrite it with mask_token (the bernoulli(0.8) draw) or leave it as it is
MaskOutcomes == {"mask", "original"}

MaskTokens ==
    /\ UNCHANGED <<fwdVars, facVars, rsVars, ctVars>>
    /\ pc = "embedded"
    /\ mask_it
    /\ IF "mask_token" \in ModelAttributes
       THEN \E masked \in [1..BImg -> SUBSET (1..(H * W))] :
            \E outcome \in [1..BImg -> [1..(H * W) -> MaskOutcomes]] :
            \E replaced \in [1..BImg -> SUBSET (1..(H * W))] :
               /\ \A i \in 1..BImg :
                     replaced[i] = {p \in masked[i] : outcome[i][p] = "mask"}
               /\ label' = [i \in 1..BImg |-> [p \in 1..(H * W) |->
                               IF p \in masked[i] THEN PixelAverage(i, p) ELSE -100]]
               /\ x' = [i \in 1..BImg |-> [p \in 1..(H * W) |->
                               IF p \in replaced[i] THEN mask_token ELSE x[i][p]]]
               /\ pc' = "masked"
               /\ err' = err
       ELSE /\ pc' = "error"
            /\ err' = "AttributeError: mask_token"
            /\ UNCHANGED <<x, label>>
    /\ UNCHANGED <<embedIn, x_mask, x_h, x_w, pos_embed, patch_index, embedSel, embedOut>>

\* ---- visual_embed, lines 431-476 ----
TokenBudgetUncapped(eff, len) == len

\* min(eff.max(), max_image_len) of line 444
TokenBudget(eff, len) == Min(SeqMax(eff), len)

ClampBudget ==
    /\ UNCHANGED <<fwdVars, facVars, rsVars, ctVars>>
    /\ pc = IF mask_it THEN "masked" ELSE "embedded"
    /\ LET eff == [i \in 1..BImg |-> x_h[i] * x_w[i]]
       IN  IF len_type = "none"
           THEN \* max_image_len < 0 is evaluated first, line 432
                /\ pc' = "error"
                /\ err' = "TypeError: '<' not supported between 'NoneType' and 'int'"
                /\ UNCHANGED budget
           ELSE /\ budget' = IF max_image_len < 0 \/ len_type # "int"
                             THEN SeqMax(eff)
                             ELSE TokenBudget(eff, max_image_len)
                /\ pc' = "selecting"
                /\ err' = err
    /\ UNCHANGED <<embedIn, embedMid, sel_i, select, padded, embedOut>>

\* the flat positions of row u of m that hold (want = 1) or do not hold
\* (want = 0) a one, in increasing order: nonzero() filtered by row
RECURSIVE RowPositions(_, _, _)
RowPositions(m, want, from) ==
    IF from > Len(m) THEN <<>>
    ELSE (IF (IF m[from] # 0 THEN 1 ELSE 0) = want THEN <<from>> ELSE <<>>)
         \o RowPositions(m, want, from + 1)

valid_row_idx(u) == [j \in 1..Len(RowPositions(x_mask[u], 1, 1)) |->
                        <<u, RowPositions(x_mask[u], 1, 1)[j]>>]

non_valid_row_idx(u) == [j \in 1..Len(RowPositions(x_mask[u], 0, 1)) |->
                            <<u, RowPositions(x_mask[u], 0, 1)[j]>>]

\* valid_idx[:, 0].unique(): the rows that have a valid patch, ascending
RECURSIVE UniqueRowsFrom(_)
UniqueRowsFrom(u) ==
    IF u > BImg THEN <<>>
    ELSE (IF valid_row_idx(u) # <<>> THEN <<u>> ELSE <<>>) \o UniqueRowsFrom(u + 1)

unique_rows == UniqueRowsFrom(1)

ValidChoiceWithReplacement(v, k) == Draws(1..v, k)

\* torch.multinomial(torch.ones(v), k): k distinct indices; empty when it raises
ValidChoice(v, k) == IF k >= 1 /\ k <= v THEN DistinctDraws(1..v, k) ELSE {}

\* torch.multinomial(torch.ones(nv), p, replacement=True); empty when it raises
PadChoice(nv, p) == IF nv >= 1 /\ p >= 1 THEN Draws(1..nv, p) ELSE {}

\* the rows the body of the loop of line 461 can append for row u
RowSelect(u) ==
    LET v == Len(valid_row_idx(u))
        nv == Len(non_valid_row_idx(u))
        p == budget - v
    IN  IF p <= 0
        THEN {[j \in 1..budget |-> valid_row_idx(u)[d[j]]] : d \in ValidChoice(v, budget)}
        ELSE {valid_row_idx(u) \o [j \in 1..p |-> non_valid_row_idx(u)[d[j]]] :
                 d \in PadChoice(nv, p)}

SelectRow ==
    /\ UNCHANGED <<fwdVars, facVars, rsVars, ctVars>>
    /\ pc = "selecting"
    /\ sel_i < Len(unique_rows)
    /\ LET u == unique_rows[sel_i + 1]
       IN  IF RowSelect(u) = {}
           THEN /\ pc' = "error"
                /\ err' = "RuntimeError: multinomial"
                /\ UNCHANGED <<sel_i, select, padded>>
           ELSE /\ \E row \in RowSelect(u) : select' = select \o row
                /\ sel_i' = sel_i + 1
                /\ padded' = IF budget - Len(valid_row_idx(u)) > 0
                             THEN padded \cup {u} ELSE padded
                /\ UNCHANGED <<pc, err>>
    /\ UNCHANGED <<embedIn, embedMid, budget, embedOut>>

\* ---- visual_embed, lines 479-532 ----
RECURSIVE Concat(_)
Concat(ss) == IF ss = <<>> THEN <<>> ELSE Head(ss) \o Concat(Tail(ss))

\* t[select[:, 0], select[:, 1]]
Gather(t) == [j \in 1..Len(select) |-> t[select[j][1]][select[j][2]]]

\* s.view(b, -1): b rows of equal length, in order
ViewRows(s, b) ==
    [i \in 1..b |-> SubSeq(s, (i - 1) * (Len(s) \div b) + 1, i * (Len(s) \div b))]

\* x + pos_embed (+ temporal_embed): the summands of one token
Token(feat, pos, temp) == [feat |-> feat, pos |-> pos, temp |-> temp]

NoTemporal == 0 - 1

IgnoreLabel == 0 - 100

\* lines 495-506: class token and its position in front of every row
WithCls(xs, ps) ==
    [i \in 1..Len(xs) |->
        <<Token(cls_token, cls_pos, NoTemporal)>>
        \o [j \in 1..Len(xs[i]) |-> Token(xs[i][j], ps[i][j], NoTemporal)]]

\* line 518
ImageMask(ms) == [i \in 1..Len(ms) |-> <<1>> \o ms[i]]

\* video_mask of line 371: the frames whose mean is 0
video_mask(b, t) == MeanIsZero((b - 1) * T + t)

\* lines 509-512
VideoMask(ms) ==
    [b \in 1..bs |->
        Concat([t \in 1..T |->
            IF video_mask(b, t)
            THEN [j \in 1..(Len(ms[(b - 1) * T + t]) + 1) |-> 0]
            ELSE <<1>> \o ms[(b - 1) * T + t]])]

\* line 515: x.view(ori_shape[0], ori_shape[1] * x.size(1), x.size(-1))
VideoRows(xs) == [b \in 1..bs |-> Concat([t \in 1..T |-> xs[(b - 1) * T + t]])]

\* tokens of temporal_embed[:, :max_frames] repeated n times each
TemporalLen(n) == Min(TemporalSlots, max_frames) * n

\* line 516: slot (j - 1) \div n is added to token j of every row
AddTemporal(xs, n) ==
    [b \in 1..Len(xs) |-> [j \in 1..Len(xs[b]) |->
        Token(xs[b][j].feat, xs[b][j].pos, (j - 1) \div n)]]

\* lines 487-493
SelectedLabel(ms) ==
    LET ls == ViewRows(Gather(label), BImg)
    IN  [i \in 1..BImg |->
            <<IgnoreLabel>> \o [j \in 1..Len(ls[i]) |->
                IF ms[i][j] = 0 THEN IgnoreLabel ELSE ls[i][j]]]

Assemble ==
    /\ UNCHANGED <<fwdVars, facVars, rsVars, ctVars>>
    /\ pc = "selecting"
    /\ sel_i = Len(unique_rows)
    /\ IF Len(select) % BImg # 0
       THEN /\ pc' = "error"
            /\ err' = "RuntimeError: view"
            /\ UNCHANGED embedOut
       ELSE LET xs == ViewRows(Gather(x), BImg)
                ms == ViewRows(Gather(x_mask), BImg)
                is == ViewRows(Gather(patch_index), BImg)
                ps == ViewRows(Gather(pos_embed), BImg)
                n == (Len(select) \div BImg) + 1
            IN  /\ out_index' = is
                /\ out_label' = IF mask_it THEN SelectedLabel(ms) ELSE <<>>
                /\ IF ~is_video
                   THEN /\ out_x' = WithCls(xs, ps)
                        /\ out_mask' = ImageMask(ms)
                        /\ pc' = "done"
                        /\ err' = err
                   ELSE /\ out_mask' = VideoMask(ms)
                        /\ IF "temporal_embed" \notin ModelAttributes
                           THEN /\ pc' = "error"
                                /\ err' = "AttributeError: temporal_embed"
                                /\ out_x' = out_x
                           ELSE IF TemporalLen(n) # T * n /\ TemporalLen(n) # 1
                           THEN /\ pc' = "error"
                                /\ err' = "RuntimeError: size mismatch"
                                /\ out_x' = out_x
                           ELSE /\ out_x' = AddTemporal(VideoRows(WithCls(xs, ps)), n)
                                /\ pc' = "done"
                                /\ err' = err
    /\ UNCHANGED <<embedIn, embedMid, embedSel>>

\* ---- inputs ----
ContentChoices(h, w, video) ==
    {<<h, w, 1>>} \cup (IF video THEN {<<0, 0, 0>>, <<h, w, 0>>} ELSE {<<1, 1, 1>>})

IdleEmbed ==
    /\ pc = "idle" /\ err = "none"
    /\ is_video = FALSE /\ bs = 0 /\ T = 0 /\ H = 0 /\ W = 0 /\ content = <<>>
    /\ max_image_len = 0 /\ len_type = "int" /\ mask_it = FALSE /\ use_video = FALSE /\ max_frames = 0
    /\ x = <<>> /\ x_mask = <<>> /\ x_h = <<>> /\ x_w = <<>>
    /\ pos_embed = <<>> /\ patch_index = <<>> /\ label = <<>>
    /\ budget = 0 /\ sel_i = 0 /\ select = <<>> /\ padded = {}
    /\ out_x = <<>> /\ out_mask = <<>> /\ out_index = <<>> /\ out_label = <<>>

IdleFwd ==
    /\ fwd_pc = "idle" /\ fwd_x = <<>> /\ fwd_mask = <<>>
    /\ fwd_blk = 0 /\ fwd_attn = <<>> /\ fwd_w = 0
    /\ fwd_log = <<>> /\ fwd_prev = <<>>

IdleFac ==
    /\ fac_pc = "idle" /\ fac_name = "none" /\ fac_pretrained = FALSE
    /\ fac_kwargs = <<>> /\ fac_model = <<>> /\ fac_err = "none"

IdleRs ==
    /\ rs_pc = "idle" /\ rs_ckpt = <<>> /\ rs_model = <<>>
    /\ rs_out = <<>> /\ rs_err = "none"

IdleCt ==
    /\ ct_pc = "idle" /\ ct_args = <<>> /\ ct_model = <<>> /\ ct_err = "none"
    /\ in_h = 0 /\ in_w = 0

Init ==
    /\ IdleFwd /\ IdleFac /\ IdleRs /\ IdleCt
    /\ pc = "start"
    /\ err = "none"
    /\ is_video \in BOOLEAN
    /\ bs \in 1..Batch
    /\ T \in (IF is_video THEN 1..Batch ELSE {1})
    /\ bs * T <= Batch
    /\ H \in 1..MaxPatches
    /\ W \in 1..MaxPatches
    /\ H * W <= (IF is_video THEN MaxVideoPatches ELSE MaxPatches)
    /\ bs * T * H * W <= (IF is_video THEN MaxVideoTokens ELSE MaxTokens)
    /\ content \in [1..(bs * T) -> ContentChoices(H, W, is_video)]
    /\ max_image_len \in 1..MaxLen
    /\ len_type = "int"
    /\ mask_it \in BOOLEAN
    /\ use_video \in (IF is_video THEN BOOLEAN ELSE {FALSE})
    /\ max_frames \in (IF use_video THEN 1..MaxFrames ELSE {MaxFrames})
    /\ x = <<>> /\ x_mask = <<>> /\ x_h = <<>> /\ x_w = <<>>
    /\ pos_embed = <<>> /\ patch_index = <<>> /\ label = <<>>
    /\ budget = 0 /\ sel_i = 0 /\ select = <<>> /\ padded = {}
    /\ out_x = <<>> /\ out_mask = <<>> /\ out_index = <<>> /\ out_label = <<>>

Next ==
    \/ Embed
    \/ MaskTokens
    \/ ClampBudget
    \/ SelectRow
    \/ Assemble

Spec == Init /\ [][Next]_vars

\* ---- claims about visual_embed ----
\* K of the claims: min(H*W, max_image_len)
K == Min(H * W, max_image_len)

\* the K+1 output tokens, mask bits and the K index pairs of image i
FrameOf(i) == ((i - 1) % T) + 1
VideoOf(i) == ((i - 1) \div T) + 1
OutTokens(i) ==
    IF is_video
    THEN SubSeq(out_x[VideoOf(i)], (FrameOf(i) - 1) * (K + 1) + 1, FrameOf(i) * (K + 1))
    ELSE out_x[i]
OutBits(i) ==
    IF is_video
    THEN SubSeq(out_mask[VideoOf(i)], (FrameOf(i) - 1) * (K + 1) + 1, FrameOf(i) * (K + 1))
    ELSE out_mask[i]

\* C1: for a 4-D image batch and max_image_len >= 1 (mask_it left False),
\* visual_embed ends without error and every example gets one class token
\* followed by exactly K = min(H*W, max_image_len) patch tokens: tokens and
\* mask have length K+1, patch_index has length K, for every example alike.
C1_TokenBudget ==
    (~is_video /\ ~mask_it) =>
        /\ pc # "error"
        /\ pc = "done" =>
            /\ Len(out_x) = bs /\ Len(out_mask) = bs /\ Len(out_index) = bs
            /\ \A i \in 1..bs :
                /\ Len(out_x[i]) = K + 1
                /\ Len(out_mask[i]) = K + 1
                /\ Len(out_index[i]) = K
                /\ out_x[i][1].feat = cls_token
                /\ \A j \in 2..(K + 1) : out_x[i][j].feat.kind = "patch"

C1_Witness ==
    /\ pc = "done" /\ ~is_video /\ bs >= 2
    /\ max_image_len < H * W
    /\ content[1] # content[2]
    /\ Len(out_x[2]) = max_image_len + 1

\* C2 (as claimed): a patch in the zero-padded region of an example is marked
\* not valid (mask 0) and is not counted in x_h, x_w; a patch covering content
\* is marked valid (mask 1).
C2_PaddingNotValid ==
    pc # "start" =>
        \A i \in 1..BImg :
            /\ x_h[i] = content[i][1]
            /\ x_w[i] = content[i][2]
            /\ \A p \in 1..(H * W) :
                x_mask[i][p] = IF IsContent(i, RowOf(p, W), ColOf(p, W)) THEN 1 ELSE 0

\* C3 (as claimed): an example with fewer content (valid) patches than the
\* budget is pad-sampled: all its valid patches are kept and the remaining
\* budget - count tokens are non-valid patches of that example with mask 0.
C3_PadSampling ==
    (pc = "done" /\ ~is_video) =>
        \A i \in 1..bs :
            LET cnt == content[i][1] * content[i][2]
                kept == {j \in 1..budget : out_mask[i][j + 1] = 1}
                pad == {j \in 1..budget : out_mask[i][j + 1] = 0}
            IN  cnt < budget =>
                    /\ i \in padded
                    /\ Cardinality(kept) = cnt
                    /\ Cardinality(pad) = budget - cnt
                    /\ \A j \in kept :
                           IsContent(i, out_index[i][j][1], out_index[i][j][2])
                    /\ \A j \in pad :
                           ~IsContent(i, out_index[i][j][1], out_index[i][j][2])

\* C4: an example with at least K valid patches is truncated to K pairwise
\* distinct valid patches of that same example; when max_image_len >= H*W
\* every patch of the example appears exactly once.
C4_TruncateDistinct ==
    pc = "done" =>
        \A i \in 1..BImg :
            Len(valid_row_idx(i)) >= budget =>
                /\ Len(out_index[i]) = budget
                /\ \A j, k \in 1..budget :
                       j # k => out_index[i][j] # out_index[i][k]
                /\ \A j \in 1..budget :
                       /\ out_index[i][j] \in Grid(H, W)
                       /\ OutTokens(i)[j + 1].feat.img = i
                       /\ x_mask[i][out_index[i][j][1] * W + out_index[i][j][2] + 1] = 1
                /\ max_image_len >= H * W =>
                       {out_index[i][j] : j \in 1..budget} = Grid(H, W)

\* all patches kept (max_image_len >= H*W), not in raster order
C4_Witness ==
    /\ pc = "done" /\ ~is_video
    /\ max_image_len >= H * W /\ H * W >= 3
    /\ out_index[1] # PatchIndex(H, W)
    /\ {out_index[1][j] : j \in 1..(H * W)} = Grid(H, W)

\* C5: at every patch-token position j of the tokens of image i, the feature,
\* the position embedding added to it, the mask bit and the patch_index entry
\* belong to one and the same patch <<r, c>> of image i.
C5_SamePatch ==
    pc = "done" =>
        \A i \in 1..BImg : \A j \in 1..Len(out_index[i]) :
            LET r == out_index[i][j][1]
                c == out_index[i][j][2]
                tok == OutTokens(i)[j + 1]
            IN  /\ tok.feat = PatchFeature(i, r, c)
                /\ tok.pos.kind = "grid" /\ tok.pos.r = r /\ tok.pos.c = c
                /\ (~is_video \/ ~MeanIsZero(i)) =>
                       OutBits(i)[j + 1] = x_mask[i][r * W + c + 1]

C5_Witness ==
    /\ pc = "done" /\ ~is_video /\ bs >= 2 /\ H = 2 /\ W = 2
    /\ out_index[1] # out_index[2]
    /\ out_x[2][2].feat.img = 2

\* C9 (as claimed): for 5-D input to a model built with use_video=True,
\* visual_embed succeeds for every T with 1 <= T <= max_frames, returns B rows
\* of T*(K+1) tokens and adds temporal embedding t to the tokens of frame t.
C9_AnyFrameCount ==
    (is_video /\ use_video /\ ~mask_it /\ T <= max_frames) =>
        /\ pc # "error"
        /\ pc = "done" =>
            /\ Len(out_x) = bs
            /\ \A b \in 1..bs :
                /\ Len(out_x[b]) = T * (K + 1)
                /\ \A j \in 1..(T * (K + 1)) :
                       out_x[b][j].temp = (j - 1) \div (K + 1)

\* C15: for a video batch the returned mask has T*(K+1) bits per video; the
\* K+1 bits of a frame (its class-token bit included) are all 0 exactly when
\* the frame is entirely zero, and all 1 for a frame with a non-zero pixel.
C15_ZeroFramesMasked ==
    (pc = "done" /\ is_video) =>
        /\ Len(out_mask) = bs
        /\ \A b \in 1..bs : Len(out_mask[b]) = T * (K + 1)
        /\ \A i \in 1..BImg : \A j \in 1..(K + 1) :
              OutBits(i)[j] = IF IsZeroImage(i) THEN 0 ELSE 1

\* C16: for every input, image or video, every row of the returned mask has
\* at least one bit 1, so no row is masked out as a whole in attention.
C16_RowHasValidToken ==
    pc = "done" =>
        \A row \in 1..Len(out_mask) :
            \E j \in 1..Len(out_mask[row]) : out_mask[row][j] = 1

\* C17: a call for masked patch prediction returns labels in which a token
\* has a real label (0..255) only if its patch was chosen for masking and its
\* mask bit is 1; the class token, the patches not chosen and the tokens with
\* mask bit 0 have -100; the feature of a patch not chosen is not replaced.
C17_LabelsOfMaskedPatches ==
    mask_it =>
        /\ pc # "error"
        /\ pc \in {"masked", "selecting", "done"} =>
              \A i \in 1..BImg : \A p \in 1..(H * W) :
                 label[i][p] = IgnoreLabel =>
                    x[i][p] = PatchFeature(i, RowOf(p, W), ColOf(p, W))
        /\ pc = "done" =>
              \A i \in 1..BImg :
                 /\ out_label[i][1] = IgnoreLabel
                 /\ \A j \in 1..Len(out_index[i]) :
                       LET p == out_index[i][j][1] * W + out_index[i][j][2] + 1
                       IN  IF label[i][p] # IgnoreLabel /\ OutBits(i)[j + 1] = 1
                           THEN out_label[i][j + 1] = label[i][p]
                                /\ label[i][p] \in 0..255
                           ELSE out_label[i][j + 1] = IgnoreLabel

\* C18: mask_tokens treats each patch chosen for masking in one of the three
\* ways of its docstring - mask token, random feature, original feature -
\* and each of the three can happen.
C18_ThreeOutcomes ==
    (mask_it /\ pc \notin {"idle", "start", "embedded"}) =>
        /\ pc # "error"
        /\ \A way \in {"mask", "random", "original"} : way \in MaskOutcomes

\* C10 (as claimed): visual_embed with mask_it=True completes without error
\* and returns a label with one entry per output token.
C10_MaskItCompletes ==
    mask_it =>
        /\ pc # "error"
        /\ pc = "done" =>
            /\ Len(out_label) = BImg
            /\ \A i \in 1..BImg : Len(out_label[i]) = K + 1

\* ---- Attention.forward, Block.forward, PerceiverVisionTransformer.forward ----
\* Token values are the integers 0..Levels-1 with arithmetic modulo Levels;
\* NaN is what a softmax over a row of -inf yields, and it propagates.
NaN == 0 - 1

NegInf == 0 - 2

\* nn.Linear applied to one token
Linear(a, b, v) == IF v = NaN THEN NaN ELSE (a * v + b) % Levels

\* nn.LayerNorm: a function of the token alone
LayerNorm(v) == Linear(2, 1, v)

\* nn.GELU
Act(v) == IF v = NaN THEN NaN ELSE (v * v) % Levels

\* Mlp.forward, lines 78-84 (dropout rate 0)
MlpForward(v) == Linear(1, 2, Act(Linear(2, 0, v)))

\* x + branch of lines 170-171
Residual(a, b) == IF a = NaN \/ b = NaN THEN NaN ELSE (a + b) % Levels

\* the weight of block b
BlockWeight(b) == (fwd_w + b) % Levels

\* qkv of lines 110-119 for one token
Query(b, v) == Linear(BlockWeight(b), 1, v)
Key(b, v) == Linear(BlockWeight(b), 2, v)
Value(b, v) == Linear(1, BlockWeight(b), v)

\* (q @ k.transpose) * scale, line 121
Score(q, k) == IF q = NaN \/ k = NaN THEN NaN ELSE q * k

MaskedFillQuery(s, mask, i, j) == IF mask[i] = 0 THEN NegInf ELSE s

\* attn.masked_fill(~mask[:, None, None, :], -inf), line 124: the key axis
MaskedFill(s, mask, i, j) == IF mask[j] = 0 THEN NegInf ELSE s

\* exp of a score: positive for a finite score, 0 for -inf
Exp(sc) == IF sc = NegInf THEN 0 ELSE 1 + sc

\* softmax over one row, line 125, as numerators over their sum
SoftmaxRow(row) ==
    IF (\E j \in 1..Len(row) : row[j] = NaN) \/ (\A j \in 1..Len(row) : row[j] = NegInf)
    THEN [j \in 1..Len(row) |-> NaN]
    ELSE [j \in 1..Len(row) |-> Exp(row[j])]

\* attn of lines 121-126 for block b on the normed tokens xn
AttentionWeights(b, xn, mask) ==
    [i \in 1..Len(xn) |->
        SoftmaxRow([j \in 1..Len(xn) |->
            MaskedFill(Score(Query(b, xn[i]), Key(b, xn[j])), mask, i, j)])]

\* (attn @ v) of line 128 for query i: the weighted mean of the values
WeightedValue(b, a, xn, i) ==
    IF \E j \in 1..Len(xn) : a[i][j] = NaN \/ Value(b, xn[j]) = NaN
    THEN NaN
    ELSE SeqSum([j \in 1..Len(xn) |-> a[i][j] * Value(b, xn[j])])
         \div SeqSum([j \in 1..Len(xn) |-> a[i][j]])

\* Attention.forward followed by proj, lines 108-131
AttentionForward(b, xn, mask) ==
    The({[i \in 1..Len(xn) |-> Linear(1, 1, WeightedValue(b, a, xn, i))] :
            a \in {AttentionWeights(b, xn, mask)}})

\* x = x + drop_path(_x), line 170 (drop_path is the identity at rate 0)
AttentionBranch(b, xs, mask) ==
    The({[j \in 1..Len(xs) |-> Residual(xs[j], at[j])] :
            at \in {AttentionForward(b, [j \in 1..Len(xs) |-> LayerNorm(xs[j])], mask)}})

\* Block.forward, lines 168-172
BlockForward(b, xs, mask) ==
    The({[j \in 1..Len(xs) |-> Residual(x1[j], MlpForward(LayerNorm(x1[j])))] :
            x1 \in {AttentionBranch(b, xs, mask)}})

Runs == {1, 2}

NextBlockReversed(done) == Depth - done

\* the block `for blk in self.blocks` reaches after `done` turns: the
\* ModuleList iterates in construction order
NextBlock(done) == done + 1

\* one turn of the loop of lines 536-537, on both runs
ApplyBlock ==
    /\ fwd_pc = "blocks"
    /\ fwd_blk < Depth
    /\ fwd_x' = [run \in Runs |-> BlockForward(NextBlock(fwd_blk), fwd_x[run], fwd_mask)]
    /\ fwd_attn' = [run \in Runs |->
            AttentionWeights(NextBlock(fwd_blk),
                             [j \in 1..Len(fwd_x[run]) |-> LayerNorm(fwd_x[run][j])],
                             fwd_mask)]
    /\ fwd_blk' = fwd_blk + 1
    /\ fwd_log' = Append(fwd_log, [call |-> "block", blk |-> NextBlock(fwd_blk), mask |-> fwd_mask])
    /\ fwd_prev' = fwd_x
    /\ UNCHANGED <<fwd_pc, fwd_mask, fwd_w>>
    /\ UNCHANGED <<embedVars, facVars, rsVars, ctVars>>

\* line 539 and the return
FinalNorm ==
    /\ fwd_pc = "blocks"
    /\ fwd_blk = Depth
    /\ fwd_x' = [run \in Runs |-> [j \in 1..Len(fwd_x[run]) |-> LayerNorm(fwd_x[run][j])]]
    /\ fwd_pc' = "done"
    /\ fwd_log' = Append(fwd_log, [call |-> "norm", blk |-> 0, mask |-> <<>>])
    /\ fwd_prev' = fwd_x
    /\ UNCHANGED <<fwd_mask, fwd_blk, fwd_attn, fwd_w>>
    /\ UNCHANGED <<embedVars, facVars, rsVars, ctVars>>

\* two runs over one mask that agree on every unmasked token
InitFwd ==
    /\ IdleEmbed /\ IdleFac /\ IdleRs /\ IdleCt
    /\ fwd_pc = "blocks"
    /\ fwd_blk = 0
    /\ fwd_attn = <<>>
    /\ fwd_log = <<>>
    /\ fwd_prev = <<>>
    /\ fwd_w \in {1, Levels - 1}
    /\ \E n \in 1..MaxSeq :
        /\ fwd_mask \in [1..n -> {0, 1}]
        /\ \E first \in [1..n -> 0..(Levels - 1)] :
           \E changed \in SUBSET {j \in 1..n : fwd_mask[j] = 0} :
               fwd_x = [run \in Runs |-> [j \in 1..n |->
                           IF run = 2 /\ j \in changed
                           THEN (first[j] + 1) % Levels ELSE first[j]]]

NextFwd ==
    \/ ApplyBlock
    \/ FinalNorm

SpecFwd == InitFwd /\ [][NextFwd]_vars

\* C6: when the example has an unmasked key, no query gives attention weight
\* to a key whose mask bit is 0, and two runs that differ only in masked-out
\* tokens agree at every unmasked position after every block and the norm.
C6_MaskedKeysIgnored ==
    (fwd_pc # "idle" /\ \E j \in 1..Len(fwd_mask) : fwd_mask[j] = 1) =>
        /\ fwd_blk >= 1 =>
            \A run \in Runs : \A i, j \in 1..Len(fwd_mask) :
                /\ fwd_attn[run][i][j] # NaN
                /\ fwd_mask[j] = 0 => fwd_attn[run][i][j] = 0
        /\ \A j \in 1..Len(fwd_mask) :
            fwd_mask[j] = 1 => (fwd_x[1][j] = fwd_x[2][j] /\ fwd_x[1][j] # NaN)

\* the runs really differ: a masked query token ends with different values
C6_Witness ==
    /\ fwd_pc = "done"
    /\ \E j, k \in 1..Len(fwd_mask) :
        /\ fwd_mask[j] = 1 /\ fwd_mask[k] = 0
        /\ fwd_x[1][k] # fwd_x[2][k]
        /\ fwd_x[1][j] = fwd_x[2][j]

\* C13: forward calls the blocks in construction order, each exactly once and
\* each with the x_mask it was given, and the final norm only after the last
\* block; a block's output is its input plus the attention branch, then plus
\* the feed-forward branch of that sum; the token count never changes.
C13_BlocksInOrder ==
    fwd_pc # "idle" =>
        /\ Len(fwd_log) = fwd_blk + (IF fwd_pc = "done" THEN 1 ELSE 0)
        /\ \A k \in 1..fwd_blk :
              fwd_log[k] = [call |-> "block", blk |-> k, mask |-> fwd_mask]
        /\ fwd_pc = "done" => (fwd_blk = Depth /\ fwd_log[Depth + 1].call = "norm")
        /\ \A run \in Runs : Len(fwd_x[run]) = Len(fwd_mask)
        /\ (fwd_pc = "blocks" /\ fwd_blk >= 1) =>
              \A run \in Runs :
                 \A normed \in {[i \in 1..Len(fwd_mask) |-> LayerNorm(fwd_prev[run][i])]} :
                 \A plus_attn \in {[j \in 1..Len(fwd_mask) |->
                        Residual(fwd_prev[run][j],
                                 Linear(1, 1, WeightedValue(fwd_blk, fwd_attn[run], normed, j)))]} :
                    fwd_x[run] = [j \in 1..Len(fwd_mask) |->
                                    Residual(plus_attn[j], MlpForward(LayerNorm(plus_attn[j])))]
        /\ (fwd_pc = "done") =>
              \A run \in Runs :
                 fwd_x[run] = [j \in 1..Len(fwd_mask) |-> LayerNorm(fwd_prev[run][j])]

\* every block has run on a sequence with masked and unmasked tokens, then the norm
C13_Witness ==
    /\ fwd_pc = "done"
    /\ Len(fwd_log) = Depth + 1
    /\ fwd_log[1].blk = 1 /\ fwd_log[Depth].blk = Depth
    /\ \E j, k \in 1..Len(fwd_mask) : fwd_mask[j] = 1 /\ fwd_mask[k] = 0
    /\ fwd_x[1] # fwd_prev[1]
    /\ \A j \in 1..Len(fwd_mask) : fwd_x[1][j] # NaN

\* ---- the registered constructors and _create_vision_transformer ----
\* every function under @register_model, lines 614-1070: the variant it names,
\* whether it passes distilled=True, and the model_kwargs it binds
Registry ==
    {
     [name |-> "vit_small_patch16_224", variant |-> "vit_small_patch16_224", distilled |-> FALSE,
      bound |-> [patch_size |-> 16, embed_dim |-> 768, depth |-> 8, num_heads |-> 8, mlp_ratio |-> 3, qkv_bias |-> 0, norm_layer |-> 1]],
     [name |-> "vit_base_patch16_224", variant |-> "vit_base_patch16_224", distilled |-> FALSE,
      bound |-> [patch_size |-> 16, embed_dim |-> 768, depth |-> 12, num_heads |-> 12]],
     [name |-> "vit_base_patch32_224", variant |-> "vit_base_patch32_224", distilled |-> FALSE,
      bound |-> [patch_size |-> 32, embed_dim |-> 768, depth |-> 12, num_heads |-> 12]],
     [name |-> "vit_base_patch16_384", variant |-> "vit_base_patch16_384", distilled |-> FALSE,
      bound |-> [patch_size |-> 16, embed_dim |-> 768, depth |-> 12, num_heads |-> 12]],
     [name |-> "vit_base_patch32_384", variant |-> "vit_base_patch32_384", distilled |-> FALSE,
      bound |-> [patch_size |-> 32, embed_dim |-> 768, depth |-> 12, num_heads |-> 12]],
     [name |-> "vit_large_patch16_224", variant |-> "vit_large_patch16_224", distilled |-> FALSE,
      bound |-> [patch_size |-> 16, embed_dim |-> 1024, depth |-> 24, num_heads |-> 16]],
     [name |-> "vit_large_patch32_224", variant |-> "vit_large_patch32_224", distilled |-> FALSE,
      bound |-> [patch_size |-> 32, embed_dim |-> 1024, depth |-> 24, num_heads |-> 16]],
     [name |-> "vit_large_patch16_384", variant |-> "vit_large_patch16_384", distilled |-> FALSE,
      bound |-> [patch_size |-> 16, embed_dim |-> 1024, depth |-> 24, num_heads |-> 16]],
     [name |-> "vit_large_patch32_384", variant |-> "vit_large_patch32_384", distilled |-> FALSE,
      bound |-> [patch_size |-> 32, embed_dim |-> 1024, depth |-> 24, num_heads |-> 16]],
     [name |-> "vit_base_patch16_224_in21k", variant |-> "vit_base_patch16_224_in21k", distilled |-> FALSE,
      bound |-> [patch_size |-> 16, embed_dim |-> 768, depth |-> 12, num_heads |-> 12, representation_size |-> 768]],
     [name |-> "vit_base_patch32_224_in21k", variant |-> "vit_base_patch32_224_in21k", distilled |-> FALSE,
      bound |-> [patch_size |-> 32, embed_dim |-> 768, depth |-> 12, num_heads |-> 12, representation_size |-> 768]],
     [name |-> "vit_large_patch16_224_in21k", variant |-> "vit_large_patch16_224_in21k", distilled |-> FALSE,
      bound |-> [patch_size |-> 16, embed_dim |-> 1024, depth |-> 24, num_heads |-> 16, representation_size |-> 1024]],
     [name |-> "vit_large_patch32_224_in21k", variant |-> "vit_large_patch32_224_in21k", distilled |-> FALSE,
      bound |-> [patch_size |-> 32, embed_dim |-> 1024, depth |-> 24, num_heads |-> 16, representation_size |-> 1024]],
     [name |-> "vit_huge_patch14_224_in21k", variant |-> "vit_huge_patch14_224_in21k", distilled |-> FALSE,
      bound |-> [patch_size |-> 14, embed_dim |-> 1280, depth |-> 32, num_heads |-> 16, representation_size |-> 1280]],
     [name |-> "vit_base_resnet50_224_in21k", variant |-> "vit_base_resnet50_224_in21k", distilled |-> FALSE,
      bound |-> [embed_dim |-> 768, depth |-> 12, num_heads |-> 12, hybrid_backbone |-> 1, representation_size |-> 768]],
     [name |-> "vit_base_resnet50_384", variant |-> "vit_base_resnet50_384", distilled |-> FALSE,
      bound |-> [embed_dim |-> 768, depth |-> 12, num_heads |-> 12, hybrid_backbone |-> 1]],
     [name |-> "vit_small_resnet26d_224", variant |-> "vit_small_resnet26d_224", distilled |-> FALSE,
      bound |-> [embed_dim |-> 768, depth |-> 8, num_heads |-> 8, mlp_ratio |-> 3, hybrid_backbone |-> 1]],
     [name |-> "vit_small_resnet50d_s3_224", variant |-> "vit_small_resnet50d_s3_224", distilled |-> FALSE,
      bound |-> [embed_dim |-> 768, depth |-> 8, num_heads |-> 8, mlp_ratio |-> 3, hybrid_backbone |-> 1]],
     [name |-> "vit_base_resnet26d_224", variant |-> "vit_base_resnet26d_224", distilled |-> FALSE,
      bound |-> [embed_dim |-> 768, depth |-> 12, num_heads |-> 12, hybrid_backbone |-> 1]],
     [name |-> "vit_base_resnet50d_224", variant |-> "vit_base_resnet50d_224", distilled |-> FALSE,
      bound |-> [embed_dim |-> 768, depth |-> 12, num_heads |-> 12, hybrid_backbone |-> 1]],
     [name |-> "vit_deit_tiny_patch16_224", variant |-> "vit_deit_tiny_patch16_224", distilled |-> FALSE,
      bound |-> [patch_size |-> 16, embed_dim |-> 192, depth |-> 12, num_heads |-> 3]],
     [name |-> "vit_deit_small_patch16_224", variant |-> "vit_deit_small_patch16_224", distilled |-> FALSE,
      bound |-> [patch_size |-> 16, embed_dim |-> 384, depth |-> 12, num_heads |-> 6]],
     [name |-> "vit_deit_base_patch16_224", variant |-> "vit_deit_base_patch16_224", distilled |-> FALSE,
      bound |-> [patch_size |-> 16, embed_dim |-> 768, depth |-> 12, num_heads |-> 12]],
     [name |-> "vit_deit_base_patch16_384", variant |-> "vit_deit_base_patch16_384", distilled |-> FALSE,
      bound |-> [patch_size |-> 16, embed_dim |-> 768, depth |-> 12, num_heads |-> 12]],
     [name |-> "vit_deit_tiny_distilled_patch16_224", variant |-> "vit_deit_tiny_distilled_patch16_224", distilled |-> TRUE,
      bound |-> [patch_size |-> 16, embed_dim |-> 192, depth |-> 12, num_heads |-> 3]],
     [name |-> "vit_deit_small_distilled_patch16_224", variant |-> "vit_deit_small_distilled_patch16_224", distilled |-> TRUE,
      bound |-> [patch_size |-> 16, embed_dim |-> 384, depth |-> 12, num_heads |-> 6]],
     [name |-> "vit_deit_base_distilled_patch16_224", variant |-> "vit_deit_base_distilled_patch16_224", distilled |-> TRUE,
      bound |-> [patch_size |-> 16, embed_dim |-> 768, depth |-> 12, num_heads |-> 12]],
     [name |-> "vit_deit_base_distilled_patch16_384", variant |-> "vit_deit_base_distilled_patch16_384", distilled |-> TRUE,
      bound |-> [patch_size |-> 16, embed_dim |-> 768, depth |-> 12, num_heads |-> 12]]
    }

Constructor(name) == CHOOSE c \in Registry : c.name = name

\* the names bound at module level: imports, classes, functions
ModuleGlobals ==
    {"math", "logging", "partial", "torch", "nn", "F", "hashlib", "os", "urllib",
     "warnings", "tqdm", "IMAGENET_DEFAULT_MEAN", "IMAGENET_DEFAULT_STD",
     "load_pretrained", "StdConv2dSame", "DropPath", "to_2tuple", "trunc_normal_",
     "resnet26d", "resnet50d", "ResNetV2", "register_model", "transforms", "_logger",
     "UnNormalize", "inception_unnormalize", "_cfg", "Mlp", "Attention", "Block",
     "PatchEmbed", "PerceiverVisionTransformer", "resize_pos_embed",
     "checkpoint_filter_fn", "_create_vision_transformer"}
    \cup {c.name : c \in Registry}

\* the parameters of PerceiverVisionTransformer.__init__, lines 216-238
InitParams ==
    {"img_size", "patch_size", "in_chans", "num_classes", "embed_dim", "depth",
     "num_heads", "mlp_ratio", "qkv_bias", "qk_scale", "representation_size",
     "drop_rate", "attn_drop_rate", "drop_path_rate", "norm_layer",
     "add_norm_before_transformer", "no_patch_embed_bias", "use_video",
     "max_frames", "pretrained"}

\* their defaults, for the ones the constructors bind
InitDefaults == [patch_size |-> 16, embed_dim |-> 768, depth |-> 12, num_heads |-> 12]

\* what _cfg (lines 45-58) gives unless overridden
CfgDefaults == [num_classes |-> 1000, img_size |-> 224]

Arg(kw, key, default) == IF key \in DOMAIN kw THEN kw[key] ELSE default

\* the body of a registered function up to its call of _create_vision_transformer:
\* model_kwargs = dict(<bound>, **kwargs), and vit_small's setdefault of qk_scale
CallConstructor ==
    /\ fac_pc = "called"
    /\ fac_kwargs' =
        (IF fac_name = "vit_small_patch16_224" /\ fac_pretrained
         THEN [qk_scale |-> 1] ELSE <<>>)
        @@ Constructor(fac_name).bound @@ fac_kwargs
    /\ fac_pc' = "creating"
    /\ UNCHANGED <<fac_name, fac_pretrained, fac_model, fac_err>>
    /\ UNCHANGED <<embedVars, fwdVars, rsVars, ctVars>>

\* _create_vision_transformer, lines 580-611, and the return of its caller
CreateVisionTransformer ==
    /\ fac_pc = "creating"
    /\ LET c == Constructor(fac_name)
           model_cls == IF c.distilled THEN "DistilledPerceiverVisionTransformer"
                        ELSE "PerceiverVisionTransformer"
           passed == DOMAIN fac_kwargs \cup {"img_size", "num_classes", "representation_size"}
       IN  IF "default_cfgs" \notin ModuleGlobals
           THEN /\ fac_pc' = "error"
                /\ fac_err' = "NameError: default_cfgs"
                /\ fac_model' = fac_model
           ELSE IF model_cls \notin ModuleGlobals
           THEN /\ fac_pc' = "error"
                /\ fac_err' = "NameError: DistilledPerceiverVisionTransformer"
                /\ fac_model' = fac_model
           ELSE IF ~(passed \subseteq InitParams)
           THEN /\ fac_pc' = "error"
                /\ fac_err' = "TypeError: unexpected keyword argument"
                /\ fac_model' = fac_model
           ELSE /\ fac_pc' = "returned"
                /\ fac_err' = fac_err
                /\ fac_model' =
                    [cls |-> model_cls,
                     default_cfg |-> c.variant,
                     img_size |-> Arg(fac_kwargs, "img_size", CfgDefaults.img_size),
                     num_classes |-> Arg(fac_kwargs, "num_classes", CfgDefaults.num_classes),
                     patch_size |-> Arg(fac_kwargs, "patch_size", InitDefaults.patch_size),
                     embed_dim |-> Arg(fac_kwargs, "embed_dim", InitDefaults.embed_dim),
                     depth |-> Arg(fac_kwargs, "depth", InitDefaults.depth),
                     num_heads |-> Arg(fac_kwargs, "num_heads", InitDefaults.num_heads),
                     weights |-> IF fac_pretrained THEN "pretrained" ELSE "initialised"]
    /\ UNCHANGED <<fac_name, fac_pretrained, fac_kwargs>>
    /\ UNCHANGED <<embedVars, fwdVars, rsVars, ctVars>>

\* the keyword arguments a caller passes besides pretrained
UserKwargs == {<<>>, [img_size |-> 224], [img_size |-> 384]}

InitFac ==
    /\ IdleEmbed /\ IdleFwd /\ IdleRs /\ IdleCt
    /\ fac_pc = "called"
    /\ fac_name \in {c.name : c \in Registry}
    /\ fac_pretrained \in BOOLEAN
    /\ fac_kwargs \in UserKwargs
    /\ fac_model = <<>>
    /\ fac_err = "none"

NextFac ==
    \/ CallConstructor
    \/ CreateVisionTransformer

SpecFac == InitFac /\ [][NextFac]_vars

\* C7 (as claimed): every registered constructor called with pretrained=False
\* and no extra keyword arguments returns a model with the patch size,
\* embedding dimension, depth and number of heads it binds and with
\* default_cfg attached; none ends in an error.
C7_ConstructorsReturn ==
    (~fac_pretrained /\ "img_size" \notin DOMAIN fac_kwargs) =>
        /\ fac_pc # "error"
        /\ fac_pc = "returned" =>
            LET b == Constructor(fac_name).bound
            IN  /\ fac_model.default_cfg = Constructor(fac_name).variant
                /\ fac_model.embed_dim = b.embed_dim
                /\ fac_model.depth = b.depth
                /\ fac_model.num_heads = b.num_heads
                /\ "patch_size" \in DOMAIN b => fac_model.patch_size = b.patch_size

\* ---- resize_pos_embed and checkpoint_filter_fn, lines 542-577 ----
\* a pos_embed tensor of shape (1, tokens, dim): its tokens and its dimension
PosEmbedOf(who, n, d) ==
    [tokens |-> [j \in 1..n |-> [kind |-> who, at |-> j, from |-> 0]], dim |-> d]

\* int(math.sqrt(n))
ISqrt(n) == CHOOSE g \in 0..n : g * g <= n /\ (g + 1) * (g + 1) > n

GridTokensNotResized(gs_old, gs_new) ==
    [p \in 1..(gs_old * gs_old) |-> [kind |-> "resized", at |-> p, from |-> gs_old]]

\* the gs_old x gs_old grid interpolated to gs_new x gs_new and flattened, lines 555-557
GridTokens(gs_old, gs_new) ==
    [p \in 1..(gs_new * gs_new) |-> [kind |-> "resized", at |-> p, from |-> gs_old]]

Raised(reason) == [tokens |-> <<>>, dim |-> 0, raised |-> reason]

\* resize_pos_embed(posemb, posemb_new), lines 542-559
ResizePosEmbed(posemb, posemb_new) ==
    LET ntok_new == Len(posemb_new.tokens) - 1
        posemb_tok == SubSeq(posemb.tokens, 1, 1)
        posemb_grid == SubSeq(posemb.tokens, 2, Len(posemb.tokens))
        gs_old == ISqrt(Len(posemb_grid))
        gs_new == ISqrt(ntok_new)
        elems == Len(posemb_grid) * posemb.dim
    IN  IF gs_old = 0 \/ elems % (gs_old * gs_old) # 0
        THEN Raised("RuntimeError: reshape")
        ELSE IF gs_new = 0
        THEN Raised("RuntimeError: interpolate")
        ELSE IF elems \div (gs_old * gs_old) # posemb.dim
        THEN Raised("RuntimeError: cat")
        ELSE [tokens |-> posemb_tok \o GridTokens(gs_old, gs_new),
              dim |-> elems \div (gs_old * gs_old),
              raised |-> "none"]

\* checkpoint_filter_fn on the key "pos_embed", lines 573-576
CheckpointFilter ==
    /\ rs_pc = "start"
    /\ LET v == IF Len(rs_ckpt.tokens) # Len(rs_model.tokens) \/ rs_ckpt.dim # rs_model.dim
                THEN ResizePosEmbed(rs_ckpt, rs_model)
                ELSE [tokens |-> rs_ckpt.tokens, dim |-> rs_ckpt.dim, raised |-> "none"]
       IN  /\ rs_out' = [tokens |-> v.tokens, dim |-> v.dim]
           /\ rs_err' = v.raised
           /\ rs_pc' = IF v.raised = "none" THEN "done" ELSE "error"
    /\ UNCHANGED <<rs_ckpt, rs_model>>
    /\ UNCHANGED <<embedVars, fwdVars, facVars, ctVars>>

\* a checkpoint and a model with a class token and at least one patch token
InitRs ==
    /\ IdleEmbed /\ IdleFwd /\ IdleFac /\ IdleCt
    /\ rs_pc = "start"
    /\ \E n \in 2..MaxPosTokens, d \in 1..MaxDim : rs_ckpt = PosEmbedOf("ckpt", n, d)
    /\ \E n \in 2..MaxPosTokens, d \in 1..MaxDim : rs_model = PosEmbedOf("model", n, d)
    /\ rs_out = <<>>
    /\ rs_err = "none"

NextRs == CheckpointFilter

SpecRs == InitRs /\ [][NextRs]_vars

IsSquare(n) == \E g \in 1..n : g * g = n

\* the result has the model's token count, the checkpoint's embedding
\* dimension, and the checkpoint's class token in front
ResizedToModel ==
    /\ rs_pc = "done"
    /\ Len(rs_out.tokens) = Len(rs_model.tokens)
    /\ rs_out.dim = rs_ckpt.dim
    /\ rs_out.tokens[1] = rs_ckpt.tokens[1]

\* C8 (as claimed): whenever the checkpoint's pos_embed has another number of
\* tokens than the model's, the filtered pos_embed has exactly the model's
\* token count and the same embedding dimension, for every pair of counts,
\* and the class token is carried over.
C8_ResizeAnyCount ==
    (rs_pc \in {"done", "error"} /\ Len(rs_ckpt.tokens) # Len(rs_model.tokens)) =>
        ResizedToModel

\* C8 (amended): the same, when the checkpoint's and the model's patch-token
\* counts (tokens minus the class token) are both positive perfect squares.
C8_ResizeSquareCounts ==
    (/\ rs_pc \in {"done", "error"}
     /\ Len(rs_ckpt.tokens) # Len(rs_model.tokens)
     /\ IsSquare(Len(rs_ckpt.tokens) - 1)
     /\ IsSquare(Len(rs_model.tokens) - 1)) =>
        ResizedToModel

C8_Witness ==
    /\ rs_pc = "done"
    /\ Len(rs_ckpt.tokens) = 5
    /\ Len(rs_model.tokens) = 10
    /\ Len(rs_out.tokens) = 10
    /\ rs_out.tokens[2].kind = "resized" /\ rs_out.tokens[2].from = 2

\* ---- PatchEmbed and PerceiverVisionTransformer.__init__, lines 175-318 ----
\* a size argument: an int, or a tuple of two ints
IntSize(n) == [type |-> "int", h |-> n, w |-> n]
TupleSize(a, b) == [type |-> "tuple", h |-> a, w |-> b]

\* to_2tuple of lines 187-188: index 1 here is index 0 of the code
to_2tuple(size) == <<size.h, size.w>>

\* PatchEmbed.__init__, lines 178-200
PatchEmbedInit(img_size, patch_size, no_patch_embed_bias) ==
    LET img == to_2tuple(img_size)
        patch == to_2tuple(patch_size)
    IN  [img_size |-> img,
         patch_size |-> patch,
         num_patches |-> (img[2] \div patch[2]) * (img[1] \div patch[1]),
         kernel_size |-> patch,
         stride |-> patch,
         bias |-> IF no_patch_embed_bias THEN FALSE ELSE TRUE]

\* the keywords of the call PatchEmbed(...) of lines 269-274
PatchEmbedKwargs == {"img_size", "patch_size", "in_chans", "embed_dim"}

\* the default of PatchEmbed's parameter no_patch_embed_bias, line 184
PatchEmbedBiasDefault == FALSE

\* PerceiverVisionTransformer.__init__, lines 262-318
Construct ==
    /\ ct_pc = "new"
    /\ LET pe == PatchEmbedInit(ct_args.img_size, ct_args.patch_size,
                                IF "no_patch_embed_bias" \in PatchEmbedKwargs
                                THEN ct_args.no_patch_embed_bias
                                ELSE PatchEmbedBiasDefault)
       IN  IF ct_args.img_size.type # "int" \/ ct_args.patch_size.type # "int"
           THEN \* img_size // patch_size of line 278 on a tuple
                /\ ct_pc' = "error"
                /\ ct_err' = "TypeError: unsupported operand type(s) for //"
                /\ UNCHANGED ct_model
           ELSE IF ct_args.pretrained
           THEN /\ ct_pc' = "error"
                /\ ct_err' = "NotImplementedError"
                /\ UNCHANGED ct_model
           ELSE /\ ct_pc' = "built"
                /\ ct_model' = [patch_embed |-> pe,
                                patch_size |-> ct_args.patch_size.h,
                                patch_dim |-> ct_args.img_size.h \div ct_args.patch_size.h,
                                pos_embed |-> pe.num_patches + 1,
                                total_output_patch |-> pe.num_patches + 1]
                /\ UNCHANGED ct_err
    /\ UNCHANGED <<ct_args, in_h, in_w>>
    /\ UNCHANGED <<embedVars, fwdVars, facVars, rsVars>>

\* output length of nn.Conv2d along one axis, no padding and no dilation
ConvOutCeil(n, kernel, stride) == (n + stride - 1) \div stride

ConvOut(n, kernel, stride) == (n - kernel) \div stride + 1

\* the pixels of one axis that output cell i (from 0) of the convolution reads
ConvWindow(i, kernel, stride) == (i * stride)..(i * stride + kernel - 1)

\* visual_embed, lines 368-379: self.patch_embed(_x) on images of in_h x in_w pixels
PatchConv ==
    /\ ct_pc = "built"
    /\ pc = "idle"
    /\ \E h \in 1..MaxImgSide : \E w \in 1..MaxImgSide : \E n \in 1..Batch :
        LET kernel == ct_model.patch_embed.kernel_size
            stride == ct_model.patch_embed.stride
        IN  /\ in_h' = h
            /\ in_w' = w
            /\ bs' = n
            /\ IF h < kernel[1] \/ w < kernel[2]
               THEN /\ pc' = "error"
                    /\ err' = "RuntimeError: kernel size can't be greater than actual input size"
                    /\ UNCHANGED <<H, W, T, content>>
               ELSE /\ pc' = "start"
                    /\ err' = err
                    /\ T' = 1
                    /\ H' = ConvOut(h, kernel[1], stride[1])
                    /\ W' = ConvOut(w, kernel[2], stride[2])
                    /\ content' = [i \in 1..n |-> <<H', W', 1>>]
    /\ UNCHANGED <<is_video, max_image_len, len_type, mask_it, use_video, max_frames>>
    /\ UNCHANGED <<embedMid, embedSel, embedOut>>
    /\ UNCHANGED <<ct_pc, ct_args, ct_model, ct_err>>
    /\ UNCHANGED <<fwdVars, facVars, rsVars>>

InitCt ==
    /\ IdleEmbed /\ IdleFwd /\ IdleFac /\ IdleRs
    /\ ct_pc = "new"
    /\ ct_err = "none"
    /\ ct_model = <<>>
    /\ in_h = 0 /\ in_w = 0
    /\ \E img \in {IntSize(n) : n \in MaxPatchSide..MaxImgSide}
                  \cup {TupleSize(a, b) : a, b \in MaxPatchSide..MaxImgSide} :
       \E patch \in {IntSize(n) : n \in 1..MaxPatchSide}
                    \cup {TupleSize(a, b) : a, b \in 1..MaxPatchSide} :
       \E nobias \in BOOLEAN : \E pre \in BOOLEAN :
           ct_args = [img_size |-> img, patch_size |-> patch,
                      no_patch_embed_bias |-> nobias, pretrained |-> pre]

NextCt ==
    \/ Construct
    \/ PatchConv
    \/ Embed

SpecCt == InitCt /\ [][NextCt]_vars

\* C11: whatever the pixel resolution h x w of the images (each side at least
\* one patch side, the built img_size or not), the patch grid is
\* floor(h/p) x floor(w/p), the patches do not overlap and lie inside the
\* image, the position grid is resampled to exactly that grid, every patch
\* token has the position embedding of its own cell, and nothing is padded.
C11_GridFollowsResolution ==
    (ct_pc = "built" /\ pc = "embedded") =>
        LET p == ct_model.patch_size IN
        /\ H = in_h \div p
        /\ W = in_w \div p
        /\ \A r1, r2 \in 0..(H - 1) :
              /\ ConvWindow(r1, p, p) \subseteq 0..(in_h - 1)
              /\ r1 # r2 => ConvWindow(r1, p, p) \cap ConvWindow(r2, p, p) = {}
        /\ \A c1, c2 \in 0..(W - 1) :
              /\ ConvWindow(c1, p, p) \subseteq 0..(in_w - 1)
              /\ c1 # c2 => ConvWindow(c1, p, p) \cap ConvWindow(c2, p, p) = {}
        /\ \A i \in 1..BImg :
              /\ x_h[i] = H /\ x_w[i] = W
              /\ Len(x[i]) = H * W /\ Len(pos_embed[i]) = H * W
              /\ \A q \in 1..(H * W) :
                    /\ x[i][q].kind = "patch"
                    /\ pos_embed[i][q] = [kind |-> "grid", r |-> x[i][q].r,
                                          c |-> x[i][q].c, h |-> H, w |-> W]

\* an input whose resolution is not the built img_size, nor a multiple of the patch side
C11_Witness ==
    /\ ct_pc = "built" /\ pc = "embedded"
    /\ ct_model.patch_size = 2
    /\ in_h = 3 /\ in_w = 2
    /\ ct_args.img_size.h = 4
    /\ H = 1 /\ W = 1

\* C12: the constructor accepts img_size and patch_size given as an int or as
\* a tuple, and builds a model whose pos_embed has num_patches + 1 tokens,
\* num_patches being the product of the two quotients side // patch side.
C12_IntOrTupleSizes ==
    (ct_pc # "new" /\ ~ct_args.pretrained) =>
        /\ ct_pc = "built"
        /\ ct_model.pos_embed =
              (ct_args.img_size.w \div ct_args.patch_size.w)
              * (ct_args.img_size.h \div ct_args.patch_size.h) + 1

\* C19: a model built with no_patch_embed_bias=True has a patch projection
\* without bias, and one built with no_patch_embed_bias=False has a bias.
C19_PatchEmbedBias ==
    ct_pc = "built" =>
        ct_model.patch_embed.bias = (~ct_args.no_patch_embed_bias)

\* ---- visual_embed called with max_image_len of any type, lines 431-444 ----
\* the values handed as max_image_len: <<type, number>>; a float is held by
\* its integer part, None by 0
LenChoices ==
    {<<"int", v>> : v \in ((0 - 2)..MaxLen) \ {0}}
    \cup {<<"float", v>> : v \in {0 - 1, 1, 2}}
    \cup {<<"none", 0>>}

InitLen ==
    /\ IdleFwd /\ IdleFac /\ IdleRs /\ IdleCt
    /\ pc = "start"
    /\ err = "none"
    /\ is_video = FALSE
    /\ bs \in 1..Batch
    /\ T = 1
    /\ H \in 1..MaxPatches
    /\ W \in 1..MaxPatches
    /\ H * W <= MaxPatches
    /\ bs * H * W <= MaxTokens
    /\ content = [i \in 1..bs |-> <<H, W, 1>>]
    /\ \E choice \in LenChoices : len_type = choice[1] /\ max_image_len = choice[2]
    /\ mask_it = FALSE
    /\ use_video = FALSE
    /\ max_frames = MaxFrames
    /\ x = <<>> /\ x_mask = <<>> /\ x_h = <<>> /\ x_w = <<>>
    /\ pos_embed = <<>> /\ patch_index = <<>> /\ label = <<>>
    /\ budget = 0 /\ sel_i = 0 /\ select = <<>> /\ padded = {}
    /\ out_x = <<>> /\ out_mask = <<>> /\ out_index = <<>> /\ out_label = <<>>

NextLen ==
    \/ Embed
    \/ ClampBudget
    \/ SelectRow
    \/ Assemble

SpecLen == InitLen /\ [][NextLen]_vars

\* C14: with max_image_len None, negative or not an int, no cap applies: the
\* call completes, the budget is H*W and every patch of every image is kept.
C14_NoCapValues ==
    (pc # "idle" /\ (len_type # "int" \/ max_image_len < 0)) =>
        /\ pc # "error"
        /\ pc \in {"selecting", "done"} => budget = H * W
        /\ pc = "done" => \A i \in 1..bs : Len(out_x[i]) = H * W + 1

====
